---------------------------- MODULE Spec2Model ----------------------------
(***************************************************************************)
(* Model of the AI Data Workbench web application (src/main.py).           *)
(*                                                                         *)
(* State: the process-wide session cache df_cache, the configured          *)
(* completion model ai_model, the position of every in-flight upload       *)
(* request, and the most recent response the server produced.              *)
(*                                                                         *)
(* A CSV file is a sequence of lines, each line a tuple of cell texts; the *)
(* first line is the header.  A table (DataFrame) is a record of its       *)
(* column names and its sequence of parsed rows.  Parsed cells are strings:*)
(* a number is written in its canonical float form, a missing value is     *)
(* "NaN".  Text (answers, error messages) is a sequence of string pieces,  *)
(* concatenated with \o.                                                   *)
(***************************************************************************)
EXTENDS Integers, Sequences, FiniteSets, TLC

VARIABLES df_cache, ai_model, pc, completed, resp

vars == <<df_cache, ai_model, pc, completed, resp>>

-----------------------------------------------------------------------------
(* Bounds *)

MaxIds == 2          \* session identifiers uuid4 can hand out
NumUploads == 2      \* upload requests that can be in flight together
MaxRows == 3         \* data lines of an uploaded CSV file
MaxCharts == 2       \* chart descriptors in a visualization completion
MaxPrintLen == 2     \* characters a chat line prints

Ids == 1..MaxIds
NoSuchId == MaxIds + 1   \* an identifier uuid4 never hands out
RequestIds == Ids \cup {NoSuchId}
Requests == 1..NumUploads

-----------------------------------------------------------------------------
(* CSV parsing and cleaning: pd.read_csv, DataFrame.dropna,                *)
(* DataFrame.drop_duplicates                                               *)

Header == <<"a", "b">>

RowTexts ==
  { <<"1", "x">>, <<"1.0", "x">>, <<"2", "x">>, <<"NA", "x">> }

RECURSIVE SeqsUpTo(_, _)
SeqsUpTo(S, n) ==
  IF n = 0 THEN {<<>>}
  ELSE LET shorter == SeqsUpTo(S, n - 1)
       IN  shorter \cup {Append(s, x) : s \in {t \in shorter : Len(t) = n - 1}, x \in S}

\* The uploaded files: the empty file, and a header followed by data lines.
Files == {<<>>} \cup {<<Header>> \o rows : rows \in SeqsUpTo(RowTexts, MaxRows)}

NaTokens == {"", "NA"}
NaN == "NaN"

NumLits == {"1", "1.0", "2"}

ToFloat(text) == IF text \in {"1", "1.0"} THEN "1.0" ELSE "2.0"

\* A column is numeric when every cell that is not a missing-value token
\* is a numeric literal; otherwise it stays a column of strings.
IsNumericColumn(lines, j) ==
  \A i \in 1..Len(lines) : lines[i][j] \in NaTokens \cup NumLits

ParseCell(lines, i, j) ==
  LET text == lines[i][j]
  IN  IF text \in NaTokens THEN NaN
      ELSE IF IsNumericColumn(lines, j) THEN ToFloat(text)
      ELSE text

\* pd.read_csv(io.StringIO(str(contents, 'utf-8'))): raises on an empty
\* file; otherwise the first line names the columns.
CanRead(contents) == Len(contents) > 0

read_csv(contents) ==
  LET lines == Tail(contents)
  IN  [columns |-> Head(contents),
       rows |-> [i \in 1..Len(lines) |->
                   [j \in 1..Len(Head(contents)) |-> ParseCell(lines, i, j)]]]

IsComplete(row) == \A j \in 1..Len(row) : row[j] # NaN

RECURSIVE KeepComplete(_)
KeepComplete(rows) ==
  IF rows = <<>> THEN <<>>
  ELSE IF IsComplete(Head(rows)) THEN <<Head(rows)>> \o KeepComplete(Tail(rows))
  ELSE KeepComplete(Tail(rows))

dropna(df) == [df EXCEPT !.rows = KeepComplete(df.rows)]

Range(s) == {s[i] : i \in 1..Len(s)}

RECURSIVE KeepFirst(_, _)
KeepFirst(rows, seen) ==
  IF rows = <<>> THEN <<>>
  ELSE IF Head(rows) \in seen THEN KeepFirst(Tail(rows), seen)
  ELSE <<Head(rows)>> \o KeepFirst(Tail(rows), seen \cup {Head(rows)})

RECURSIVE KeepLast(_)
KeepLast(rows) ==
  IF rows = <<>> THEN <<>>
  ELSE IF Head(rows) \in Range(Tail(rows)) THEN KeepLast(Tail(rows))
  ELSE <<Head(rows)>> \o KeepLast(Tail(rows))

\* drop_duplicates(keep='last')
drop_duplicates_last(df) == [df EXCEPT !.rows = KeepLast(df.rows)]

drop_duplicates(df) == [df EXCEPT !.rows = KeepFirst(df.rows, {})]

-----------------------------------------------------------------------------
(* Responses *)

Root == [path |-> "/", id |-> NoSuchId]
DashboardUrl(file_id) == [path |-> "/dashboard/", id |-> file_id]

NoText == <<>>
NoExec == [ran |-> FALSE, mutates |-> FALSE, printCalled |-> FALSE,
           printed |-> NoText, raises |-> "none"]
NoCompletion == [call |-> "none", fence |-> "", json |-> FALSE, type |-> "none",
                 items |-> <<>>]

\* The response to a request.  endpoint, file_id, known (was file_id a key
\* of df_cache when the request arrived), file, completion and exec echo
\* the request and what the completion service returned for it, and
\* concurrent counts the other uploads suspended when an upload finished;
\* the other fields are what the client receives.  error names the exception that
\* left the handler, when one did.
Response(endpoint, file_id, known, kind, status) ==
  [endpoint |-> endpoint, file_id |-> file_id, known |-> known,
   kind |-> kind, status |-> status, url |-> Root, error |-> "none",
   file |-> <<>>, completion |-> NoCompletion, exec |-> NoExec,
   concurrent |-> 0, answer |-> NoText, page |-> "", blocks |-> <<>>,
   pre |-> NoCompletion]

RedirectResponse(endpoint, file_id, known, url, status) ==
  [Response(endpoint, file_id, known, "redirect", status) EXCEPT !.url = url]

HTMLResponse(endpoint, file_id) == Response(endpoint, file_id, TRUE, "html", 200)

\* An exception that leaves the handler: the framework answers 500.
Unhandled(endpoint, file_id, known, error) ==
  [Response(endpoint, file_id, known, "unhandled", 500) EXCEPT !.error = error]

-----------------------------------------------------------------------------
(* Start-up *)

Init ==
  /\ df_cache = <<>>
  /\ ai_model \in {"GenerativeModel", "None"}
  /\ pc = [r \in Requests |-> "idle"]
  /\ completed = 0
  /\ resp = Response("none", NoSuchId, FALSE, "none", 0)

-----------------------------------------------------------------------------
(* POST /upload/ *)

\* an identifier generator that can repeat itself
uuid4_any(issued) == Ids

\* uuid.uuid4(): an identifier it has not handed out before.
uuid4(issued) == Ids \ issued

\* The request arrives and suspends in await file.read().
UploadBegin(r) ==
  /\ pc[r] = "idle"
  /\ pc' = [pc EXCEPT ![r] = "reading"]
  /\ UNCHANGED <<df_cache, ai_model, completed, resp>>

\* df_cache = {file_id: df}
CacheWith_only(file_id, df) == [k \in {file_id} |-> df]

\* df_cache[file_id] = df
CacheWith(file_id, df) ==
  [k \in DOMAIN df_cache \cup {file_id} |-> IF k = file_id THEN df ELSE df_cache[k]]

\* The read returns contents; the rest of the handler runs without
\* another suspension point.
upload_and_process(r, contents, file_id) ==
  /\ pc[r] = "reading"
  /\ pc' = [pc EXCEPT ![r] = "idle"]
  /\ IF ~CanRead(contents)
     THEN /\ resp' = [Unhandled("upload", NoSuchId, FALSE, "EmptyDataError")
                        EXCEPT !.file = contents]
          /\ UNCHANGED <<df_cache, completed>>
     ELSE /\ file_id \in uuid4(DOMAIN df_cache)
          /\ df_cache' = CacheWith(file_id, drop_duplicates(dropna(read_csv(contents))))
          /\ completed' = completed + 1
          /\ resp' = [RedirectResponse("upload", file_id, FALSE,
                                         DashboardUrl(file_id), 303)
                        EXCEPT !.file = contents,
                               !.concurrent =
                                 Cardinality({q \in Requests \ {r} : pc[q] = "reading"})]
  /\ UNCHANGED ai_model

-----------------------------------------------------------------------------
(* GET /dashboard/{file_id}, GET /chat/{file_id},                          *)
(* GET /statistical_report/{file_id}                                       *)

get_dashboard(file_id) ==
  /\ resp' = IF file_id \notin DOMAIN df_cache
             THEN RedirectResponse("dashboard", file_id, FALSE, Root, 307)
             ELSE HTMLResponse("dashboard", file_id)
  /\ UNCHANGED <<df_cache, ai_model, pc, completed>>

\* the page served without the session check
chat_page_unchecked(file_id) ==
  /\ resp' = HTMLResponse("chat", file_id)
  /\ UNCHANGED <<df_cache, ai_model, pc, completed>>

chat_page(file_id) ==
  /\ resp' = IF file_id \notin DOMAIN df_cache
             THEN RedirectResponse("chat", file_id, FALSE, Root, 307)
             ELSE HTMLResponse("chat", file_id)
  /\ UNCHANGED <<df_cache, ai_model, pc, completed>>

\* The import of the report library at the head of the handler is taken to
\* succeed; ProfileReport(df) and to_html() run outside any try block, and
\* profiles says whether they succeed.
generate_statistical_report(file_id, profiles) ==
  /\ resp' = IF file_id \notin DOMAIN df_cache
             THEN RedirectResponse("statistical_report", file_id, FALSE, Root, 307)
             ELSE IF ~profiles
             THEN Unhandled("statistical_report", file_id, TRUE, "ProfileError")
             ELSE HTMLResponse("statistical_report", file_id)
  /\ UNCHANGED <<df_cache, ai_model, pc, completed>>

-----------------------------------------------------------------------------
(* The completion service and the code it writes                           *)

NoKey == "<no key>"
Titles == {"A", "B"}

\* What a generated line does when it runs against the table df:
\*   "fig"   a Plotly Express call, returns a figure
\*   "bad"   raises an Exception (a NameError)
\*   "drop"  df.drop(df.index[:1], inplace=True): changes df, returns None
\*   "exit"  raises SystemExit, which is not an Exception
Codes == {"fig", "bad", "drop", "exit"}

Obj(title, code) == [type |-> "object", title |-> title, code |-> code]
Str == [type |-> "string", title |-> NoKey, code |-> NoKey]

\* The items a completion's JSON list is built from.
Items ==
  { Obj("A", "fig"), Obj("B", "bad"), Obj("B", "drop"), Obj("A", "exit"),
    Obj("A", NoKey), Obj(NoKey, "fig"), Str }

\* <fence> stands for the three backquotes of a markdown code fence.
Fences == {"", "<fence>json", "<fence>python"}

\* ai_model.generate_content(prompt) for the visualization prompt: the
\* call raises, or returns a text: an optional fence around either JSON
\* (a list of items, or a number) or prose.
CompletionText(fence, json, type, items) ==
  [call |-> "text", fence |-> fence, json |-> json, type |-> type, items |-> items]
CallRaises == [NoCompletion EXCEPT !.call = "raises"]
NoModel == [NoCompletion EXCEPT !.call = "raises", !.type = "no model"]

\* Every list of up to MaxCharts items without a fence; every fence around
\* the lists of at most one item.
VisualCompletions ==
  {CallRaises}
    \cup {CompletionText(f, FALSE, "none", <<>>) : f \in Fences}
    \cup {CompletionText(f, TRUE, "number", <<>>) : f \in Fences}
    \cup {CompletionText("", TRUE, "list", items) : items \in SeqsUpTo(Items, MaxCharts)}
    \cup {CompletionText(f, TRUE, "list", items) :
            f \in Fences, items \in {<<>>} \cup {<<i>> : i \in Items}}

\* text.strip().replace(tag, "").replace(fence, ""): what is left of the
\* fence in front of the body.
Sanitize(fence, tag) ==
  IF fence = "" \/ fence = tag THEN ""
  ELSE IF fence = "<fence>json" THEN "json" ELSE "python"

\* a parse whose failure goes unnoticed
IsJson_unchecked(completion) == TRUE

\* json.loads(cleaned_response) succeeds.
IsJson(completion) == Sanitize(completion.fence, "<fence>json") = "" /\ completion.json

\* df.drop(df.index[:1], inplace=True)
DropFirstRow(df) ==
  [df EXCEPT !.rows = IF df.rows = <<>> THEN <<>> ELSE Tail(df.rows)]

\* one table shared by every session
StoreTable_shared(file_id, df) == [k \in DOMAIN df_cache |-> df]

\* df = df_cache[file_id]: df is the cached table itself, not a copy, so
\* what the generated code did to df is what the cache holds afterwards.
StoreTable(file_id, df) == [df_cache EXCEPT ![file_id] = df]

Raised(df, exc, msg) == [df |-> df, exc |-> exc, msg |-> msg]

\* The try block of one chart: evaluate the descriptor's code, then format
\* its title and the figure's markup.
TryChart(chart_info, df) ==
  IF chart_info.type = "string"
  THEN Raised(df, "TypeError", <<"string indices must be integers">>)
  ELSE IF chart_info.code = NoKey THEN Raised(df, "KeyError", <<"'code'">>)
  ELSE IF chart_info.code = "bad"
  THEN Raised(df, "NameError", <<"name 'dff' is not defined">>)
  ELSE IF chart_info.code = "exit" THEN Raised(df, "SystemExit", NoText)
  ELSE LET df2 == IF chart_info.code = "drop" THEN DropFirstRow(df) ELSE df
       IN  IF chart_info.title = NoKey THEN Raised(df2, "KeyError", <<"'title'">>)
           ELSE IF chart_info.code = "drop"
           THEN Raised(df2, "AttributeError",
                       <<"'NoneType' object has no attribute 'to_html'">>)
           ELSE Raised(df2, "none", NoText)

IsException(exc) == exc \notin {"none", "SystemExit"}

Chart(title) == [kind |-> "chart", title |-> title, msg |-> NoText]
ChartError(title, msg) == [kind |-> "error", title |-> title, msg |-> msg]

\* One turn of the loop over charts_to_generate.  Its except clause
\* catches Exception and formats the descriptor's title and the exception
\* text.  escapes names the exception that leaves the loop, "none" if none does.
ChartStep(chart_info, df) ==
  LET t == TryChart(chart_info, df)
  IN  IF t.exc = "none"
      THEN [df |-> t.df, escapes |-> "none", block |-> Chart(chart_info.title)]
      ELSE IF ~IsException(t.exc)
      THEN [df |-> t.df, escapes |-> t.exc, block |-> Chart(NoKey)]
      ELSE IF chart_info.type = "string"
      THEN [df |-> t.df, escapes |-> "TypeError", block |-> Chart(NoKey)]
      ELSE IF chart_info.title = NoKey
      THEN [df |-> t.df, escapes |-> "KeyError", block |-> Chart(NoKey)]
      ELSE [df |-> t.df, escapes |-> "none",
            block |-> ChartError(chart_info.title, t.msg)]

RECURSIVE RenderCharts(_, _, _)
RenderCharts(charts_to_generate, df, all_charts_html) ==
  IF charts_to_generate = <<>>
  THEN [df |-> df, escapes |-> "none", blocks |-> all_charts_html]
  ELSE LET step == ChartStep(Head(charts_to_generate), df)
       IN  IF step.escapes # "none"
           THEN [df |-> step.df, escapes |-> step.escapes, blocks |-> all_charts_html]
           ELSE RenderCharts(Tail(charts_to_generate), step.df,
                             Append(all_charts_html, step.block))

-----------------------------------------------------------------------------
(* GET /ai_visuals/{file_id} *)

ErrorPage(file_id, completion) ==
  [HTMLResponse("ai_visuals", file_id) EXCEPT
     !.page = "Error processing AI response.", !.completion = completion,
     !.pre = completion]

\* The handler once ai_model.generate_content has answered completion.
Visualize(file_id, completion) ==
  IF completion.call = "raises"
  THEN \* the except clause reads ai_response, which was never assigned
       /\ resp' = [Unhandled("ai_visuals", file_id, TRUE, "UnboundLocalError")
                     EXCEPT !.completion = completion]
       /\ UNCHANGED <<df_cache, ai_model, pc, completed>>
  ELSE IF ~IsJson(completion)
  THEN /\ resp' = ErrorPage(file_id, completion)
       /\ UNCHANGED <<df_cache, ai_model, pc, completed>>
  ELSE IF completion.type # "list"
  THEN \* the for loop over charts_to_generate is outside any try block
       /\ resp' = [Unhandled("ai_visuals", file_id, TRUE, "TypeError")
                     EXCEPT !.completion = completion]
       /\ UNCHANGED <<df_cache, ai_model, pc, completed>>
  ELSE LET out == RenderCharts(completion.items, df_cache[file_id], <<>>)
       IN  /\ df_cache' = StoreTable(file_id, out.df)
           /\ resp' = IF out.escapes # "none"
                      THEN [Unhandled("ai_visuals", file_id, TRUE, out.escapes)
                              EXCEPT !.completion = completion]
                      ELSE [HTMLResponse("ai_visuals", file_id) EXCEPT
                              !.page = "AI Visualizations",
                              !.completion = completion, !.blocks = out.blocks]
           /\ UNCHANGED <<ai_model, pc, completed>>

\* completions: what the completion service may answer to this request.
generate_ai_visuals(file_id, completions) ==
  IF file_id \notin DOMAIN df_cache
  THEN /\ resp' = RedirectResponse("ai_visuals", file_id, FALSE, Root, 307)
       /\ UNCHANGED <<df_cache, ai_model, pc, completed>>
  ELSE IF ai_model = "None"
  THEN \* None has no generate_content: the call raises AttributeError
       Visualize(file_id, NoModel)
  ELSE \E completion \in completions : Visualize(file_id, completion)

-----------------------------------------------------------------------------
(* POST /ask/{file_id} *)

PrintChars == {"4", "\n"}

\* The line the completion service writes for a question: whether it
\* changes df in place, whether it calls print and what that writes to the
\* captured stream, and the exception it ends with.
ChatCodes ==
  { [ran |-> TRUE, mutates |-> m, printCalled |-> p, printed |-> out, raises |-> x] :
      m \in BOOLEAN, p \in BOOLEAN, out \in SeqsUpTo(PrintChars, MaxPrintLen),
      x \in {"none", "Exception", "SystemExit"} }

ChatRaises(type, msg) ==
  [call |-> "raises", type |-> type, msg |-> msg, fence |-> "", code |-> NoExec]
NoModelChat ==
  ChatRaises("no model", <<"'NoneType' object has no attribute 'generate_content'">>)

ChatCompletions ==
  {ChatRaises("none", <<"completion failed">>)}
    \cup {[call |-> "text", type |-> "none", msg |-> NoText, fence |-> f, code |-> c] :
            f \in Fences, c \in {c \in ChatCodes : c.printCalled \/ c.printed = NoText}}

JsonAnswer(file_id, known, answer) ==
  [Response("ask", file_id, known, "json", 200) EXCEPT !.answer = answer]

Echo(completion) ==
  [NoCompletion EXCEPT !.call = completion.call, !.type = completion.type,
                       !.fence = completion.fence]

\* answer = str(e): the exception text without the prefix
ExecOutcome_bare(code) ==
  IF code.raises = "SystemExit" THEN [escapes |-> "SystemExit", answer |-> NoText]
  ELSE IF code.raises = "Exception" THEN [escapes |-> "none", answer |-> <<"boom">>]
  ELSE [escapes |-> "none",
        answer |-> IF code.printed # NoText THEN code.printed
                   ELSE <<"Action performed.">>]

RECURSIVE Strip(_)
Strip(text) ==
  IF text # <<>> /\ text[Len(text)] = "\n" THEN Strip(SubSeq(text, 1, Len(text) - 1))
  ELSE text

\* answer = output_stream.getvalue().strip() or "Action performed."
ExecOutcome_strip(code) ==
  IF code.raises = "SystemExit" THEN [escapes |-> "SystemExit", answer |-> NoText]
  ELSE IF code.raises = "Exception"
  THEN [escapes |-> "none", answer |-> <<"Error: ", "boom">>]
  ELSE [escapes |-> "none",
        answer |-> IF Strip(code.printed) # NoText THEN Strip(code.printed)
                   ELSE <<"Action performed.">>]

\* exec(code, ...) inside the try block, and the answer made of it:
\*   answer = output_stream.getvalue() or "Action performed."
\*   except Exception as e: answer = f"Error: {e}"
ExecOutcome(code) ==
  IF code.raises = "SystemExit" THEN [escapes |-> "SystemExit", answer |-> NoText]
  ELSE IF code.raises = "Exception"
  THEN [escapes |-> "none", answer |-> <<"Error: ", "boom">>]
  ELSE [escapes |-> "none",
        answer |-> IF code.printed # NoText THEN code.printed
                   ELSE <<"Action performed.">>]

\* The handler once ai_model.generate_content has answered completion.
Answer(file_id, completion) ==
  IF completion.call = "raises"
  THEN /\ resp' = [JsonAnswer(file_id, TRUE, <<"Error: ">> \o completion.msg)
                     EXCEPT !.completion = Echo(completion)]
       /\ UNCHANGED <<df_cache, ai_model, pc, completed>>
  ELSE IF Sanitize(completion.fence, "<fence>python") # ""
  THEN \* the language word left of the fence is the first thing exec meets
       /\ resp' = [JsonAnswer(file_id, TRUE, <<"Error: ", "name 'json' is not defined">>)
                     EXCEPT !.completion = Echo(completion)]
       /\ UNCHANGED <<df_cache, ai_model, pc, completed>>
  ELSE LET code == completion.code
           df == df_cache[file_id]
           out == ExecOutcome(code)
       IN  /\ df_cache' = StoreTable(file_id, IF code.mutates THEN DropFirstRow(df) ELSE df)
           /\ resp' =
                IF out.escapes # "none"
                THEN [Unhandled("ask", file_id, TRUE, out.escapes) EXCEPT
                        !.completion = Echo(completion), !.exec = code]
                ELSE [JsonAnswer(file_id, TRUE, out.answer) EXCEPT
                        !.completion = Echo(completion), !.exec = code]
           /\ UNCHANGED <<ai_model, pc, completed>>

ask_question(file_id, completions) ==
  IF file_id \notin DOMAIN df_cache
  THEN /\ resp' = JsonAnswer(file_id, FALSE, <<"Session not found.">>)
       /\ UNCHANGED <<df_cache, ai_model, pc, completed>>
  ELSE IF ai_model = "None"
  THEN Answer(file_id, NoModelChat)
  ELSE \E completion \in completions : Answer(file_id, completion)

-----------------------------------------------------------------------------

(* The upload of every file to a server that holds no session yet *)

SampleId == CHOOSE id \in Ids : TRUE

NextUpload ==
  \/ UploadBegin(1)
  \/ \E contents \in Files : upload_and_process(1, contents, SampleId)

InitUpload == Init /\ ai_model = "GenerativeModel"

SpecUpload == InitUpload /\ [][NextUpload]_vars

-----------------------------------------------------------------------------
(* The AI endpoints in full, over one uploaded session *)

SampleFile == <<Header, <<"1", "x">>, <<"2", "x">>>>

NextAI ==
  \/ UploadBegin(1)
  \/ upload_and_process(1, SampleFile, SampleId)
  \/ \E file_id \in {NoSuchId, SampleId} : generate_ai_visuals(file_id, VisualCompletions)
  \/ \E file_id \in {NoSuchId, SampleId} : ask_question(file_id, ChatCompletions)

SpecAI == Init /\ [][NextAI]_vars

-----------------------------------------------------------------------------
(* The whole server: every endpoint, any interleaving of requests *)

SampleFiles ==
  { <<>>, SampleFile, <<Header, <<"1", "x">>, <<"NA", "x">>, <<"1.0", "x">>>> }

SampleVisuals ==
  { CallRaises,
    CompletionText("", FALSE, "none", <<>>),
    CompletionText("<fence>json", TRUE, "list", <<Obj("A", "fig")>>),
    CompletionText("", TRUE, "list", <<Obj("A", "fig"), Obj("B", "drop")>>),
    CompletionText("", TRUE, "list", <<Obj("B", "drop"), Obj(NoKey, "fig")>>) }

ChatText(fence, mutates, printCalled, printed, raises) ==
  [call |-> "text", type |-> "none", msg |-> NoText, fence |-> fence,
   code |-> [ran |-> TRUE, mutates |-> mutates, printCalled |-> printCalled,
             printed |-> printed, raises |-> raises]]

SampleChats ==
  { ChatRaises("none", <<"completion failed">>),
    ChatText("<fence>python", FALSE, TRUE, <<"4", "\n">>, "none"),
    ChatText("", TRUE, FALSE, NoText, "none"),
    ChatText("", TRUE, FALSE, NoText, "Exception"),
    ChatText("<fence>json", TRUE, TRUE, <<"4", "\n">>, "none"),
    ChatText("", FALSE, FALSE, NoText, "SystemExit") }

Next ==
  \/ \E r \in Requests : UploadBegin(r)
  \/ \E r \in Requests, contents \in SampleFiles, file_id \in Ids :
       upload_and_process(r, contents, file_id)
  \/ \E file_id \in RequestIds : get_dashboard(file_id)
  \/ \E file_id \in RequestIds : chat_page(file_id)
  \/ \E file_id \in RequestIds, profiles \in BOOLEAN :
       generate_statistical_report(file_id, profiles)
  \/ \E file_id \in RequestIds : generate_ai_visuals(file_id, SampleVisuals)
  \/ \E file_id \in RequestIds : ask_question(file_id, SampleChats)

Spec == Init /\ [][Next]_vars

-----------------------------------------------------------------------------
(* Properties *)

SessionEndpoints == {"dashboard", "ai_visuals", "statistical_report", "chat", "ask"}

UnknownSession ==
  resp.endpoint \in SessionEndpoints /\ resp.file_id \notin DOMAIN df_cache

\* C1 as stated: a request to any session-scoped endpoint with an
\* identifier that is not a key of the session cache ends in a redirect to
\* the landing page.
C1_AlwaysRedirects ==
  UnknownSession => resp.kind = "redirect" /\ resp.url = Root

\* C1, amended: with an unknown identifier GET /dashboard, /ai_visuals,
\* /statistical_report and /chat redirect to the landing page; POST /ask
\* does not redirect: it answers with HTTP success and the answer
\* "Session not found.".  None ends in an unhandled error.
C1_UnknownSession ==
  UnknownSession =>
    IF resp.endpoint = "ask"
    THEN resp.kind = "json" /\ resp.status = 200
         /\ resp.answer = <<"Session not found.">>
    ELSE resp.kind = "redirect" /\ resp.url = Root

C1_Witness ==
  /\ DOMAIN df_cache # {}
  /\ UnknownSession
  /\ resp.endpoint = "ai_visuals"
  /\ resp.kind = "redirect"

FirstIndex(rows, row) == CHOOSE i \in 1..Len(rows) :
  rows[i] = row /\ \A j \in 1..(i - 1) : rows[j] # row

\* C2: after an upload the table stored under the new identifier has no
\* row with a missing value and no two equal rows, and holds exactly the
\* distinct complete rows the file parses to, in the order in which each
\* first occurs in the file.
C2_CleanedTable ==
  (resp.endpoint = "upload" /\ resp.kind = "redirect") =>
    LET table == df_cache[resp.file_id].rows
        input == read_csv(resp.file).rows
    IN  /\ \A i \in 1..Len(table) : \A j \in 1..Len(table[i]) : table[i][j] # NaN
        /\ \A i, j \in 1..Len(table) : i # j => table[i] # table[j]
        /\ Range(table) =
             {row \in Range(input) : \A j \in 1..Len(row) : row[j] # NaN}
        /\ \A i, j \in 1..Len(table) :
             i < j => FirstIndex(input, table[i]) < FirstIndex(input, table[j])

\* A file with a missing value between two lines that parse to the same
\* row, followed by a different row.
C2_Witness ==
  /\ resp.endpoint = "upload"
  /\ resp.kind = "redirect"
  /\ resp.file = <<Header, <<"1", "x">>, <<"NA", "x">>, <<"1.0", "x">>>>
  /\ df_cache[resp.file_id].rows = << <<"1.0", "x">> >>

ChatRan == resp.endpoint = "ask" /\ resp.exec.ran

\* C3 as stated: whenever the executed line raises, the request succeeds
\* with an answer that starts with "Error:".
C3_EveryExceptionReported ==
  (ChatRan /\ resp.exec.raises # "none") =>
    resp.kind = "json" /\ resp.status = 200 /\ Head(resp.answer) = "Error: "

\* C3, amended: whenever the executed line raises an exception that is an
\* Exception, the request succeeds with the answer "Error: " followed by
\* the exception's text; an exception that is not an Exception (SystemExit)
\* leaves the handler.
C3_ExceptionReported ==
  /\ (ChatRan /\ resp.exec.raises = "Exception") =>
       resp.kind = "json" /\ resp.status = 200 /\ resp.answer = <<"Error: ", "boom">>
  /\ (ChatRan /\ resp.exec.raises = "SystemExit") => resp.kind = "unhandled"

\* The line printed before it raised: the captured output is discarded.
C3_Witness ==
  /\ ChatRan
  /\ resp.exec.raises = "Exception"
  /\ resp.exec.printed # NoText
  /\ resp.answer = <<"Error: ", "boom">>

VisualsText == resp.endpoint = "ai_visuals" /\ resp.completion.call = "text"

\* What is left once the fences are stripped is not JSON: the body is
\* prose, or the word python is left in front of it.
NotValidJson(completion) == ~completion.json \/ completion.fence = "<fence>python"

\* C4: when the fence-stripped completion is not valid JSON, the answer is
\* the error page alone, with no chart block and no per-chart error block.
C4_ErrorPageOnly ==
  (VisualsText /\ NotValidJson(resp.completion)) =>
    /\ resp.kind = "html"
    /\ resp.page = "Error processing AI response."
    /\ resp.blocks = <<>>

\* A fenced list of one good chart the parser rejects.
C4_Witness ==
  /\ VisualsText
  /\ resp.completion.fence = "<fence>python"
  /\ resp.completion.json
  /\ resp.completion.items = <<Obj("A", "fig")>>
  /\ resp.page = "Error processing AI response."

\* The completion parses to a list whose items are chart descriptors with
\* or without their keys, or values of another shape, none of which ends the
\* process.
ParsedList ==
  /\ VisualsText
  /\ ~NotValidJson(resp.completion)
  /\ resp.completion.type = "list"
  /\ \A i \in 1..Len(resp.completion.items) : resp.completion.items[i].code # "exit"

\* C5: when the completion parses to a list, the page holds one block per
\* descriptor, in order, each a chart or an inline error.
C5_OneBlockPerDescriptor ==
  ParsedList =>
    /\ resp.kind = "html"
    /\ Len(resp.blocks) = Len(resp.completion.items)
    /\ \A i \in 1..Len(resp.blocks) :
         /\ resp.blocks[i].kind \in {"chart", "error"}
         /\ resp.blocks[i].title = resp.completion.items[i].title

\* C6: when the completion call itself fails for an existing session,
\* GET /ai_visuals answers an HTML error page and POST /ask a JSON answer.
C6_CallFailureReported ==
  (resp.known /\ resp.completion.call = "raises") =>
    /\ resp.endpoint = "ai_visuals" => resp.kind = "html"
    /\ resp.endpoint = "ask" => resp.kind = "json" /\ Head(resp.answer) = "Error: "

Printed == ChatRan /\ resp.exec.printCalled /\ resp.exec.raises = "none"

\* C7 as stated: when the executed line prints and raises nothing, the
\* answer is the captured output.
C7_AnswerIsOutput ==
  Printed => resp.kind = "json" /\ resp.answer = resp.exec.printed

\* C7, amended: when the executed line prints and raises nothing, the
\* answer is the captured output, character for character, if that output
\* is not empty; if it is empty the answer is "Action performed.".
C7_AnswerIsNonEmptyOutput ==
  Printed =>
    /\ resp.kind = "json"
    /\ resp.exec.printed # NoText => resp.answer = resp.exec.printed
    /\ resp.exec.printed = NoText => resp.answer = <<"Action performed.">>

C7_Witness ==
  /\ Printed
  /\ resp.exec.printed = <<"4", "\n">>
  /\ resp.answer = <<"4", "\n">>

\* A step of GET /ai_visuals or POST /ask.
AIStep == resp'.endpoint \in {"ai_visuals", "ask"} /\ pc' = pc

\* The generated code of the request changes its table in place.
CodeMutates(r) ==
  \/ r.exec.ran /\ r.exec.mutates
  \/ \E i \in 1..Len(r.completion.items) : r.completion.items[i].code = "drop"

UploadStep == pc' # pc /\ completed' = completed + 1

C10_UploadsIndependent ==
  /\ Cardinality(DOMAIN df_cache) = completed
  /\ (resp.endpoint = "upload" /\ resp.kind = "redirect") =>
       /\ resp.status = 303
       /\ resp.url = DashboardUrl(resp.file_id)
       /\ resp.file_id \in DOMAIN df_cache
       /\ df_cache[resp.file_id] = drop_duplicates(dropna(read_csv(resp.file)))

\* The second upload completed while another request was suspended in its
\* read.
C10_Witness ==
  /\ completed = 2
  /\ resp.endpoint = "upload"
  /\ resp.kind = "redirect"
  /\ resp.concurrent > 0

=============================================================================
